---- MODULE Spec2Model ----
(***************************************************************************)
(* tower-jwt: the Middleware service (src/lib.rs), the two-phase dispatch  *)
(* future MiddlewareFuture (src/future.rs), the Decoder trait and its      *)
(* InPlace implementation (src/decoder.rs) and the token helpers           *)
(* (src/util.rs).                                                          *)
(***************************************************************************)
EXTENDS Integers, Sequences, FiniteSets, TLC

\* ---------------------------------------------------------------- bounds
\* number of Middleware::call invocations in one behaviour
MaxDispatch == 2
\* the clock value of the initial state (seconds)
Epoch == 1000
\* how many times the clock advances in the codec specification, and by how much
MaxTicks == 3
TickStep == 50

\* ------------------------------------------------- Option / Result / Poll
None == [tag |-> "None"]
Some(x) == [tag |-> "Some", val |-> x]
Ok(x) == [tag |-> "Ok", val |-> x]
Err(e) == [tag |-> "Err", val |-> e]
Pending == [tag |-> "Pending"]
Ready(x) == [tag |-> "Ready", val |-> x]
IsSome(o) == o.tag = "Some"
IsOk(r) == r.tag = "Ok"
IsErr(r) == r.tag = "Err"
Unit == [tag |-> "Unit"]

\* ------------------------------------------------------ lib.rs: enum Error
MissingAuthorizationHeader == [kind |-> "MissingAuthorizationHeader"]
ErrorDecoder(d) == [kind |-> "Decoder", val |-> d]
ErrorInner(e) == [kind |-> "Inner", val |-> e]

\* a failure of the wrapped service reported as a decode failure
map_err_as_decoder(p) ==
    IF p.tag = "Ready" /\ IsErr(p.val) THEN Ready(Err(ErrorDecoder(p.val.val)))
    ELSE p

\* Result::map_err / Poll::map_err with Error::Inner (lib.rs:162, future.rs:96)
map_err_Inner(p) ==
    IF p.tag = "Ready" /\ IsErr(p.val) THEN Ready(Err(ErrorInner(p.val.val)))
    ELSE p

\* ------------------------------------------------------- util.rs: the keys
PUBLIC_KEY == [pair |-> "test", half |-> "public"]
PRIVATE_KEY == [pair |-> "test", half |-> "private"]
\* a key pair that is not the one of util.rs
FOREIGN_PRIVATE_KEY == [pair |-> "foreign", half |-> "private"]

\* util.rs: struct Claim and fn claim(expiry), evaluated when the clock reads t
Claim(sub, jti, role, iss, exp, iat) ==
    [sub |-> sub, jti |-> jti, role |-> role, iss |-> iss, exp |-> exp, iat |-> iat]

claim(expiry, t) ==
    LET iat == IF IsSome(expiry) THEN t ELSE t - 100
        exp == IF IsSome(expiry) THEN iat + expiry.val ELSE iat + 10
    IN  Claim("sub", "jti", "moderator", "issuer", exp, iat)

\* ---------------------------------------- serde: Serialize / Deserialize
\* a JSON value: its type and its content
JStr(s) == <<"str", s>>
JNum(n) == <<"num", n>>
JType(v) == v[1]
JVal(v) == v[2]
ClaimFields == {"sub", "jti", "role", "iss", "exp", "iat"}
StrFields == {"sub", "jti", "role", "iss"}

\* #[derive(Serialize)] on Claim: a JSON object, one member per field
Serialize(c) ==
    [f \in ClaimFields |-> IF f \in StrFields THEN JStr(c[f]) ELSE JNum(c[f])]

\* #[derive(Deserialize)] on Claim: every field present and of its type
Deserialize(json) ==
    IF /\ ClaimFields \subseteq DOMAIN json
       /\ \A f \in StrFields : JType(json[f]) = "str"
       /\ JType(json["exp"]) = "num" /\ JType(json["iat"]) = "num"
    THEN Ok(Claim(JVal(json["sub"]), JVal(json["jti"]), JVal(json["role"]),
                  JVal(json["iss"]), JVal(json["exp"]), JVal(json["iat"])))
    ELSE Err([kind |-> "Json"])

\* ------------------------------------------------ jsonwebtoken: encode/decode
Header_new(alg) == [alg |-> alg, typ |-> "JWT"]
\* the signed message: the header and payload segments
Message(header, payload) == <<header.alg, header.typ, [f \in DOMAIN payload |-> JVal(payload[f])]>>
Sign(key, header, payload) == [pair |-> key.pair, msg |-> Message(header, payload)]
Verify(key, header, payload, sig) ==
    sig = [pair |-> key.pair, msg |-> Message(header, payload)]

\* a token is `parts` dot-separated segments
Token(header, payload, sig) ==
    [parts |-> 3, header |-> header, payload |-> payload, sig |-> sig]
NoJson == [f \in {} |-> JNum(0)]
NoSig == [pair |-> "", msg |-> Message(Header_new(""), NoJson)]
Garbage == [parts |-> 1, header |-> Header_new(""), payload |-> NoJson, sig |-> NoSig]

encode(header, c, key) == Token(header, Serialize(c), Sign(key, header, Serialize(c)))

\* Validation::new(alg): leeway of 60 seconds, exp required and validated
Leeway == 60
Validation_new(alg) ==
    [algorithms |-> {alg}, leeway |-> Leeway, validate_exp |-> TRUE,
     required_spec_claims |-> {"exp"}]

jsonwebtoken_decode(tok, key, validation, t) ==
    IF tok.parts # 3 THEN Err([kind |-> "InvalidToken"])
    ELSE IF tok.header.alg \notin validation.algorithms
         THEN Err([kind |-> "InvalidAlgorithm"])
    ELSE IF ~Verify(key, tok.header, tok.payload, tok.sig)
         THEN Err([kind |-> "InvalidSignature"])
    ELSE IF \E f \in validation.required_spec_claims : f \notin DOMAIN tok.payload
         THEN Err([kind |-> "MissingRequiredClaim"])
    ELSE IF /\ validation.validate_exp
            /\ "exp" \in DOMAIN tok.payload
            /\ JVal(tok.payload["exp"]) < t - validation.leeway
         THEN Err([kind |-> "ExpiredSignature"])
    ELSE LET claims == Deserialize(tok.payload)
         IN  IF IsOk(claims) THEN Ok([header |-> tok.header, claims |-> claims.val])
             ELSE claims

\* ------------------------------------------------------------- decoder.rs
\* InPlaceBuilder::new(key, validation).build()
InPlace(key, validation) == [key |-> key, validation |-> validation]

\* util.rs: fn in_place_decoder()
in_place_decoder == InPlace(PUBLIC_KEY, Validation_new("EdDSA"))

\* util.rs: fn token(claim)
token(c) == encode(Header_new("EdDSA"), c, PRIVATE_KEY)

\* Result::map(|token_data| token_data.claims)
map_claims(r) == IF IsOk(r) THEN Ok(r.val.claims) ELSE r

\* Validation::default(): as Validation::new(Algorithm::HS256)
Validation_default == Validation_new("HS256")
\* a decode that ignores the validation the decoder was built with
InPlace_decode_default_validation(self, tok, t) ==
    map_claims(jsonwebtoken_decode(tok, self.key, Validation_default, t))

\* InPlace::decode: the decoded result, computed in place when the clock reads t
InPlace_decode(self, tok, t) ==
    map_claims(jsonwebtoken_decode(tok, self.key, self.validation, t))

\* ------------------------------------------------------------ http::Request
Absent == [tag |-> "Absent", scheme |-> "", cred |-> Garbage]
Unparsable == [tag |-> "Unparsable", scheme |-> "", cred |-> Garbage]
Bearer(tok) == [tag |-> "Value", scheme |-> "Bearer", cred |-> tok]
Basic == [tag |-> "Value", scheme |-> "Basic", cred |-> Garbage]

Request(auth, ext, body) ==
    [headers |-> [authorization |-> auth],
     extensions |-> [Claim |-> ext, Other |-> "trace"],
     body |-> body]

\* an insert that keeps a value already present
extensions_insert_if_absent(req, c) ==
    IF IsSome(req.extensions.Claim) THEN req ELSE [req EXCEPT !.extensions.Claim = Some(c)]

\* the claim goes into a fresh extensions map: the entries of other types
\* are lost
extensions_insert_fresh(req, c) ==
    [req EXCEPT !.extensions = [Claim |-> Some(c), Other |-> ""]]

\* Extensions::insert::<D::Claim>: the slot keyed by the claim type is overwritten
extensions_insert(req, c) == [req EXCEPT !.extensions.Claim = Some(c)]

\* HeaderMapExt::typed_get::<Authorization>
typed_get(headers) ==
    CASE headers.authorization.tag = "Absent" -> Ok(None)
      [] headers.authorization.tag = "Unparsable" -> Err([kind |-> "HeaderParse"])
      [] OTHER -> Ok(Some(headers.authorization))
\* Result::ok, Option::flatten, Authorization::as_bearer
ok(r) == IF IsOk(r) THEN Some(r.val) ELSE None
flatten(o) == IF IsSome(o) THEN o.val ELSE None
as_bearer_any_scheme(h) == Some(h.cred)
as_bearer(h) == IF h.scheme = "Bearer" THEN Some(h.cred) ELSE None

\* lib.rs:166-172: the bearer token of the request, if any
extract_token(req) ==
    LET header == flatten(ok(typed_get(req.headers)))
    IN  IF IsSome(header) THEN as_bearer(header.val) ELSE None

\* ---------------------------------------------------- the futures polled
\* A decode or service operation: resolves to `outcome`, after answering
\* Poll::Pending as often as it likes (pend); `last` is what it answered when
\* it was last polled.
NotPolled == [tag |-> "NotPolled"]
Future(outcome) == [outcome |-> outcome, last |-> NotPolled]
Future_poll(fut, pend) ==
    IF pend THEN [fut |-> [fut EXCEPT !.last = Pending], ret |-> Pending]
    ELSE [fut |-> [fut EXCEPT !.last = Ready(fut.outcome)], ret |-> Ready(fut.outcome)]

\* Decoder::decode as Middleware::call uses it: a future of the decoded result
Decoder_decode(self, tok, t) == Future(InPlace_decode(self, tok, t))

\* ------------------------------------------------- the wrapped service S
SvcUnit == [kind |-> "Unit"]
SvcOverloaded == [kind |-> "Overloaded"]
Response(body) == [status |-> 200, body |-> body]

\* tests::S::call: answers with the claim found in the extensions; a wrapped
\* service in general may also fail (fault)
Service_call(req, fault) ==
    IF fault THEN Future(Err(SvcOverloaded))
    ELSE IF IsSome(req.extensions.Claim)
         THEN Future(Ok(Response(req.extensions.Claim.val)))
         ELSE Future(Err(SvcUnit))

\* ------------------------------------------------- future.rs: the dispatch
Decoding(fut) == [tag |-> "Decoding", fut |-> fut]
Responding(fut) == [tag |-> "Responding", fut |-> fut]
Panic == [tag |-> "Panic"]

\* MiddlewareFuture::new
MiddlewareFuture_new(svc, req, decoder_future) ==
    [service |-> svc, request |-> Some(req), state |-> Decoding(decoder_future)]

\* control returns to the caller, with pending, before the service operation
\* is polled
poll_Responding_lazy(self, sp, calls) ==
    [self |-> self, ret |-> Pending, calls |-> calls]

\* future.rs:94-97: the Responding arm
poll_Responding(self, sp, calls) ==
    LET r == Future_poll(self.state.fut, sp)
    IN  [self |-> [self EXCEPT !.state.fut = r.fut],
         ret |-> map_err_Inner(r.ret),
         calls |-> calls]

\* a decode failure reported as a failure of the wrapped service
decode_failed_as_inner(err) == Ready(Err(ErrorInner(err)))

\* a decode failure is swallowed: the poll answers pending
decode_failed_pending(err) == Pending

\* the wrapping of a decode failure (future.rs:91)
decode_failed(err) == Ready(Err(ErrorDecoder(err)))

\* the service is called but the request stays in its slot and the state stays
\* Decoding
decoded_no_switch(self, c, sp, fault) ==
    LET request == extensions_insert(self.request.val, c)
        fut == Service_call(request, fault)
    IN  [self |-> self,
         ret |-> map_err_Inner(Future_poll(fut, sp).ret),
         calls |-> <<[handle |-> self.service, request |-> request,
                      outcome |-> fut.outcome]>>]

\* the request is cloned for the service instead of taken: the slot stays
\* occupied after the switch to Responding
decoded_keep_request(self, c, sp, fault) ==
    LET request == extensions_insert(self.request.val, c)
        fut == Service_call(request, fault)
        next == [self EXCEPT !.state = Responding(fut)]
    IN  poll_Responding(next, sp,
                        <<[handle |-> self.service, request |-> request,
                           outcome |-> fut.outcome]>>)

\* future.rs:78-90: the decode succeeded; take the request, attach the claim,
\* call the service, switch to Responding and loop into that arm
decoded(self, c, sp, fault) ==
    IF ~IsSome(self.request)
    THEN [self |-> self, ret |-> Panic, calls |-> <<>>]
    ELSE LET request == extensions_insert(self.request.val, c)
             fut == Service_call(request, fault)
             next == [self EXCEPT !.request = None, !.state = Responding(fut)]
         IN  poll_Responding(next, sp,
                             <<[handle |-> self.service, request |-> request,
                                outcome |-> fut.outcome]>>)

\* the service is called although the decode operation is still pending
poll_Decoding_eager(self, dp, sp, fault) ==
    LET r == Future_poll(self.state.fut, dp)
    IN  IF r.ret.tag = "Pending"
        THEN [self |-> self, ret |-> Pending,
              calls |-> <<[handle |-> self.service, request |-> self.request.val,
                           outcome |-> Service_call(self.request.val, fault).outcome]>>]
        ELSE IF IsOk(r.ret.val)
        THEN decoded(self, r.ret.val.val, sp, fault)
        ELSE [self |-> self, ret |-> decode_failed(r.ret.val.val), calls |-> <<>>]

\* a failed decode forwards the request, without a claim, to the service
poll_Decoding_forward_failure(self, dp, sp, fault) ==
    LET r == Future_poll(self.state.fut, dp)
    IN  IF r.ret.tag = "Pending"
        THEN [self |-> [self EXCEPT !.state.fut = r.fut], ret |-> Pending, calls |-> <<>>]
        ELSE IF IsOk(r.ret.val)
        THEN decoded(self, r.ret.val.val, sp, fault)
        ELSE LET fut == Service_call(self.request.val, fault)
                 next == [self EXCEPT !.request = None, !.state = Responding(fut)]
             IN  poll_Responding(next, sp,
                                 <<[handle |-> self.service, request |-> self.request.val,
                                    outcome |-> fut.outcome]>>)

\* future.rs:74-92: the Decoding arm
poll_Decoding(self, dp, sp, fault) ==
    LET r == Future_poll(self.state.fut, dp)
    IN  IF r.ret.tag = "Pending"
        THEN [self |-> [self EXCEPT !.state.fut = r.fut], ret |-> Pending, calls |-> <<>>]
        ELSE IF IsOk(r.ret.val)
        THEN decoded(self, r.ret.val.val, sp, fault)
        ELSE [self |-> [self EXCEPT !.state.fut = r.fut],
              ret |-> decode_failed(r.ret.val.val), calls |-> <<>>]

\* MiddlewareFuture::poll
poll(self, dp, sp, fault) ==
    IF self.state.tag = "Decoding" THEN poll_Decoding(self, dp, sp, fault)
    ELSE poll_Responding(self, sp, <<>>)

\* std::future::ready(v) and Ready::poll
ready(v) == [val |-> Some(v)]
Ready_poll(self) ==
    IF IsSome(self.val) THEN [self |-> [val |-> None], ret |-> Ready(self.val.val)]
    ELSE [self |-> self, ret |-> Panic]

\* Either<MiddlewareFuture, Ready<..>> as Middleware::call returns it, with the
\* last answer of its poll (`out`) and whether the caller still holds it
Left(fut) == [side |-> "Left", fut |-> fut, out |-> NotPolled, alive |-> TRUE]
Right(fut) == [side |-> "Right", fut |-> fut, out |-> NotPolled, alive |-> TRUE]
Completed(d) == d.out.tag \in {"Ready", "Panic"}
\* what is left of a future the caller dropped: its fields are released
Dropped(d) ==
    [side |-> d.side, fut |-> [was |-> IF d.side = "Left" THEN d.fut.state.tag ELSE "Ready"],
     out |-> d.out, alive |-> FALSE]

\* ------------------------------------------------------------------ state
VARIABLES
    service,    \* Middleware.service: the handle the middleware holds
    decoder,    \* Middleware.decoder
    handles,    \* every handle of the wrapped service that exists
    futures,    \* the futures returned by Middleware::call, in arrival order
    svcLog,     \* the calls the wrapped service has received
    decLog,     \* the decode operations started: the token Decoder::decode
                \* received, what it made of it, for which future, and whether
                \* the handle moved into that future had been polled ready
    arrivals,   \* the requests Middleware::call has received, in arrival order
    readyRet,   \* the last poll_ready: the wrapped service's answer and ours
    now,        \* the clock
    codec       \* the encode / decode round trip of util.rs and decoder.rs

vars == <<service, decoder, handles, futures, svcLog, decLog, arrivals, readyRet, now, codec>>
pipeline == <<service, decoder, handles, futures, svcLog, decLog, arrivals, readyRet>>

\* ----------------------------------------------------------------- inputs
StaleClaim == Claim("stale", "old", "guest", "issuer", 0, 0)
ForeignToken(t) == encode(Header_new("EdDSA"), claim(Some(100), t), FOREIGN_PRIVATE_KEY)
Tokens(t) == {token(claim(Some(100), t)), token(claim(None, t)), Garbage, ForeignToken(t)}
Auths(t) == {Absent, Unparsable, Basic} \cup {Bearer(tok) : tok \in Tokens(t)}
Requests(t) ==
    {Request(a, None, "body") : a \in Auths(t)}
        \cup {Request(Bearer(token(claim(Some(100), t))), Some(StaleClaim), "body")}
\* the requests of the readiness specification
ReadyRequests(t) ==
    {Request(a, None, "body") :
        a \in {Absent, Bearer(token(claim(Some(100), t))), Bearer(token(claim(None, t)))}}
ReadyAnswers == {Pending, Ready(Ok(Unit)), Ready(Err(SvcOverloaded))}

\* the round trip: the claim, its token, the decoded result and when it was decoded
Codec(c) == [claim |-> c, token |-> None, by |-> "", decoded |-> None, at |-> 0]
CodecIdle == Codec(StaleClaim)
\* the claim values of the codec specification
CodecClaims ==
    {claim(Some(100), Epoch), claim(None, Epoch)}
        \cup {Claim(sub, "jti", role, "issuer", exp, iat) :
                sub \in {"sub", "admin"}, role \in {"moderator", "guest"},
                exp \in {Epoch - 100, Epoch, Epoch + 100}, iat \in {Epoch - 100, Epoch}}

\* Middleware::new(decoder, service)
Middleware_new(d, s) == [service |-> s, decoder |-> d]

Init ==
    /\ service = Middleware_new(in_place_decoder, 0).service
    /\ decoder = Middleware_new(in_place_decoder, 0).decoder
    /\ handles = [h \in {0} |-> [ready |-> FALSE, origin |-> 0]]
    /\ futures = <<>>
    /\ svcLog = <<>>
    /\ decLog = <<>>
    /\ arrivals = <<>>
    /\ readyRet = [inner |-> Pending, outer |-> Pending]
    /\ now = Epoch
    /\ codec = CodecIdle

\* a clone that is the very handle it was cloned from
Service_clone_alias(h) == [id |-> h, of |-> h]

\* Clone::clone of a service handle: a new handle, not yet polled for readiness
Service_clone(h) == [id |-> Cardinality(DOMAIN handles), of |-> h]

\* a readiness check that answers with an error of its own while the wrapped
\* service is not ready
poll_ready_ret_own_account(inner) ==
    IF inner.tag = "Pending" THEN Ready(Err(MissingAuthorizationHeader))
    ELSE map_err_Inner(inner)

\* Middleware::poll_ready (lib.rs:161-163)
poll_ready_ret(inner) == map_err_Inner(inner)

poll_ready ==
    \E inner \in ReadyAnswers :
        /\ readyRet' = [inner |-> inner, outer |-> poll_ready_ret(inner)]
        /\ handles' = [handles EXCEPT ![service].ready = (inner = Ready(Ok(Unit)))]
        /\ UNCHANGED <<service, decoder, futures, svcLog, decLog, arrivals, now, codec>>

\* Middleware::call, no usable bearer token (lib.rs:174)
call_missing(req) ==
    /\ futures' = Append(futures, Right(ready(Err(MissingAuthorizationHeader))))
    /\ UNCHANGED <<service, decoder, handles, svcLog, decLog>>

\* the token is decoded twice: once to validate it, once for the dispatch
call_present_decode_twice(req, tok) ==
    LET clone == Service_clone(service)
        svc == service
        checked == Decoder_decode(decoder, tok, now)
        decoder_future == Decoder_decode(decoder, tok, now)
    IN  /\ handles' = [h \in DOMAIN handles \cup {clone.id} |->
                          IF h = clone.id THEN [ready |-> FALSE, origin |-> clone.of]
                          ELSE handles[h]]
        /\ service' = clone.id
        /\ decLog' = decLog \o
                        <<[token |-> tok, by |-> Len(futures) + 1,
                           result |-> checked.outcome,
                           handleReady |-> handles[service].ready],
                          [token |-> tok, by |-> Len(futures) + 1,
                           result |-> decoder_future.outcome,
                           handleReady |-> handles[service].ready]>>
        /\ futures' = Append(futures, Left(MiddlewareFuture_new(svc, req, decoder_future)))
        /\ UNCHANGED <<decoder, svcLog>>

\* the clone is moved into the dispatch and the middleware keeps the handle it
\* had
call_present_keep_handle(req, tok) ==
    LET clone == Service_clone(service)
        decoder_future == Decoder_decode(decoder, tok, now)
    IN  /\ handles' = [h \in DOMAIN handles \cup {clone.id} |->
                          IF h = clone.id THEN [ready |-> FALSE, origin |-> clone.of]
                          ELSE handles[h]]
        /\ service' = service
        /\ decLog' = Append(decLog, [token |-> tok, by |-> Len(futures) + 1,
                                      result |-> decoder_future.outcome,
                                      handleReady |-> handles[service].ready])
        /\ futures' = Append(futures, Left(MiddlewareFuture_new(clone.id, req, decoder_future)))
        /\ UNCHANGED <<decoder, svcLog>>

\* Middleware::call, bearer token present (lib.rs:177-180)
call_present(req, tok) ==
    LET clone == Service_clone(service)
        svc == service
        decoder_future == Decoder_decode(decoder, tok, now)
    IN  /\ handles' = [h \in DOMAIN handles \cup {clone.id} |->
                          IF h = clone.id THEN [ready |-> FALSE, origin |-> clone.of]
                          ELSE handles[h]]
        /\ service' = clone.id
        /\ decLog' = Append(decLog, [token |-> tok, by |-> Len(futures) + 1,
                                      result |-> decoder_future.outcome,
                                      handleReady |-> handles[service].ready])
        /\ futures' = Append(futures, Left(MiddlewareFuture_new(svc, req, decoder_future)))
        /\ UNCHANGED <<decoder, svcLog>>

\* Middleware::call (lib.rs:165-181)
call(reqs) ==
    /\ Len(futures) < MaxDispatch
    /\ \E req \in reqs :
        LET tok == extract_token(req)
        IN  /\ IF IsSome(tok) THEN call_present(req, tok.val) ELSE call_missing(req)
            /\ arrivals' = Append(arrivals, req)
    /\ UNCHANGED <<readyRet, now, codec>>

\* the executor polls the i-th future: the short-circuit side
PollRight(i) ==
    /\ futures[i].side = "Right"
    /\ LET r == Ready_poll(futures[i].fut)
       IN  futures' = [futures EXCEPT ![i].fut = r.self, ![i].out = r.ret]
    /\ UNCHANGED svcLog

\* the executor polls the i-th future: MiddlewareFuture::poll
PollLeft(i) ==
    /\ futures[i].side = "Left"
    /\ \E dp, sp, fault \in BOOLEAN :
        LET self == futures[i].fut
            r == poll(self, dp, sp, fault)
        IN  /\ dp => self.state.tag = "Decoding" /\ ~sp /\ ~fault
            /\ (sp \/ fault) => Len(r.calls) > 0 \/ self.state.tag = "Responding"
            /\ fault => Len(r.calls) > 0
            /\ futures' = [futures EXCEPT ![i].fut = r.self, ![i].out = r.ret]
            /\ svcLog' = svcLog \o [k \in 1..Len(r.calls) |->
                                      [handle |-> r.calls[k].handle,
                                       request |-> r.calls[k].request,
                                       outcome |-> r.calls[k].outcome,
                                       by |-> i]]

Poll ==
    \E i \in 1..Len(futures) :
        /\ futures[i].alive
        /\ ~Completed(futures[i])
        /\ (PollRight(i) \/ PollLeft(i))
        /\ UNCHANGED <<service, decoder, handles, decLog, arrivals, readyRet, now, codec>>

\* a destructor that hands the request still held to the wrapped service
drop_calls_flush(d) ==
    IF d.side = "Left" /\ d.fut.state.tag = "Decoding" /\ IsSome(d.fut.request)
    THEN <<[handle |-> d.fut.service, request |-> d.fut.request.val,
            outcome |-> Service_call(d.fut.request.val, FALSE).outcome]>>
    ELSE <<>>

\* the calls the wrapped service receives when a future is dropped: none, the
\* future has no Drop implementation and its fields are just released
drop_calls(d) == <<>>

\* the caller drops the i-th future before it completed
Drop ==
    \E i \in 1..Len(futures) :
        /\ futures[i].alive
        /\ ~Completed(futures[i])
        /\ futures' = [futures EXCEPT ![i] = Dropped(futures[i])]
        /\ svcLog' = svcLog \o [k \in 1..Len(drop_calls(futures[i])) |->
                                  [handle |-> drop_calls(futures[i])[k].handle,
                                   request |-> drop_calls(futures[i])[k].request,
                                   outcome |-> drop_calls(futures[i])[k].outcome,
                                   by |-> i]]
        /\ UNCHANGED <<service, decoder, handles, decLog, arrivals, readyRet, now, codec>>

\* the dispatch: calls with every kind of request, polls and drops
Next == call(Requests(now)) \/ Poll \/ Drop

Spec == Init /\ [][Next]_vars

\* ------------------------------------------------- the codec on its own
InitCodec ==
    /\ service = Middleware_new(in_place_decoder, 0).service
    /\ decoder = Middleware_new(in_place_decoder, 0).decoder
    /\ handles = [h \in {0} |-> [ready |-> FALSE, origin |-> 0]]
    /\ futures = <<>>
    /\ svcLog = <<>>
    /\ decLog = <<>>
    /\ arrivals = <<>>
    /\ readyRet = [inner |-> Pending, outer |-> Pending]
    /\ now = Epoch
    /\ \E c \in CodecClaims : codec = Codec(c)

\* util::token(&claim)
Encode ==
    /\ codec.token = None
    /\ codec' = [codec EXCEPT !.token = Some(token(codec.claim)), !.by = "token"]
    /\ UNCHANGED <<pipeline, now>>

\* the same claim signed by somebody who does not hold PRIVATE_KEY
Forge ==
    /\ codec.token = None
    /\ codec' = [codec EXCEPT
                    !.token = Some(encode(Header_new("EdDSA"), codec.claim, FOREIGN_PRIVATE_KEY)),
                    !.by = "forge"]
    /\ UNCHANGED <<pipeline, now>>

\* time passes
Tick ==
    /\ now < Epoch + MaxTicks * TickStep
    /\ now' = now + TickStep
    /\ UNCHANGED <<pipeline, codec>>

\* decoder.decode(&token).await with the decoder of util::in_place_decoder()
Decode ==
    /\ IsSome(codec.token)
    /\ codec.decoded = None
    /\ codec' = [codec EXCEPT
                    !.decoded = Some(Future(InPlace_decode(decoder, codec.token.val, now)).outcome),
                    !.at = now]
    /\ UNCHANGED <<pipeline, now>>

NextCodec == Encode \/ Forge \/ Tick \/ Decode

SpecCodec == InitCodec /\ [][NextCodec]_vars

\* the readiness protocol: poll_ready interleaved with calls and polls
NextReady == poll_ready \/ call(ReadyRequests(now)) \/ Poll

SpecReady == Init /\ [][NextReady]_vars

\* ------------------------------------------- dispatches driven to the end
\* the executor resumes the i-th future and the poll gets somewhere; a poll
\* that finds the awaited operation pending once more leaves everything as it
\* was
Resume(i) ==
    /\ i <= Len(futures)
    /\ Poll
    /\ futures'[i] # futures[i]

\* no future is dropped, the executor keeps polling each one, and no decode or
\* service operation answers pending forever
NextLive == call(ReadyRequests(now)) \/ Poll

SpecLive ==
    /\ Init
    /\ [][NextLive]_vars
    /\ \A i \in 1..MaxDispatch : WF_vars(Resume(i))

\* ------------------------------------------------------------- properties
\* the calls the wrapped service received from, and the decode operations
\* started for, the i-th future
CallsBy(i) == SelectSeq(svcLog, LAMBDA e : e.by = i)
DecodesBy(i) == SelectSeq(decLog, LAMBDA e : e.by = i)
\* the request carries a usable bearer credential
HasBearer(req) ==
    /\ req.headers.authorization.tag = "Value"
    /\ req.headers.authorization.scheme = "Bearer"
\* the dispatch state of a MiddlewareFuture, also after it was dropped
StateTag(d) == IF d.alive THEN d.fut.state.tag ELSE d.fut.was
Accepted(i) == Len(DecodesBy(i)) = 1 /\ IsOk(DecodesBy(i)[1].result)
Rejected(i) == Len(DecodesBy(i)) = 1 /\ IsErr(DecodesBy(i)[1].result)

\* C1: a completed dispatch of a request whose bearer credential the decoder
\* accepted has invoked the wrapped service exactly once, with a request that
\* carries the decoded claim, and has resolved to the very response the
\* service produced.
C1_AcceptedDispatch ==
    \A i \in 1..Len(futures) :
        (HasBearer(arrivals[i]) /\ Accepted(i) /\ Completed(futures[i])) =>
            /\ Len(CallsBy(i)) = 1
            /\ CallsBy(i)[1].request.extensions.Claim = Some(DecodesBy(i)[1].result.val)
            /\ futures[i].out.tag = "Ready"
            /\ IsOk(CallsBy(i)[1].outcome) => futures[i].out.val = CallsBy(i)[1].outcome

\* an accepted request that already carried a claim has completed with the
\* response of the service
C1_Witness ==
    \E i \in 1..Len(futures) :
        /\ HasBearer(arrivals[i]) /\ Accepted(i) /\ Completed(futures[i])
        /\ IsSome(arrivals[i].extensions.Claim)
        /\ futures[i].out = Ready(Ok(Response(DecodesBy(i)[1].result.val)))

\* C2: a call with no Authorization header, a non-bearer scheme or an
\* unparsable header returns an already completed result holding the
\* missing-credential error; that call neither invokes nor clones the wrapped
\* service, starts no decode and leaves the held handle alone; the first poll
\* of the result answers with the missing-credential error, never pending.
C2_MissingCredential ==
    [][/\ (Len(futures') = Len(futures) + 1 /\ ~HasBearer(arrivals'[Len(arrivals')])) =>
            /\ futures'[Len(futures')].side = "Right"
            /\ futures'[Len(futures')].fut.val = Some(Err(MissingAuthorizationHeader))
            /\ UNCHANGED <<service, handles, svcLog, decLog>>
       /\ \A i \in 1..Len(futures) :
            (~HasBearer(arrivals[i]) /\ futures'[i].out # futures[i].out) =>
                /\ futures'[i].out = Ready(Err(MissingAuthorizationHeader))
                /\ UNCHANGED <<service, handles, svcLog, decLog>>
      ]_vars

\* a request with a non-bearer scheme has resolved to the missing-credential
\* error
C2_Witness ==
    \E i \in 1..Len(futures) :
        /\ arrivals[i].headers.authorization.scheme = "Basic"
        /\ futures[i].out = Ready(Err(MissingAuthorizationHeader))

\* C3: a dispatch whose decode operation fails with e never invokes the
\* wrapped service, never leaves Decoding, and resolves to the decode-failure
\* error carrying exactly e.
C3_DecodeFailure ==
    \A i \in 1..Len(futures) :
        Rejected(i) =>
            /\ Len(CallsBy(i)) = 0
            /\ futures[i].alive => futures[i].fut.request = Some(arrivals[i])
            /\ StateTag(futures[i]) = "Decoding"
            /\ Completed(futures[i]) =>
                  futures[i].out =
                      Ready(Err([kind |-> "Decoder", val |-> DecodesBy(i)[1].result.val]))

\* a dispatch of an expired credential has resolved to the decode-failure
\* error of the expired kind
C3_Witness ==
    \E i \in 1..Len(futures) :
        /\ Rejected(i)
        /\ futures[i].out =
              Ready(Err([kind |-> "Decoder", val |-> [kind |-> "ExpiredSignature"]]))

\* C4: however often a dispatch is polled, the wrapped service is invoked for
\* it at most once.
C4_NoDoubleDispatch ==
    \A i \in 1..Len(futures) : Len(CallsBy(i)) <= 1

\* a dispatch was polled, invoked the service, answered pending, and is still
\* to be polled again
C4_Witness ==
    \E i \in 1..Len(futures) :
        /\ futures[i].side = "Left" /\ futures[i].alive
        /\ futures[i].out = Pending
        /\ futures[i].fut.state.tag = "Responding"
        /\ Len(CallsBy(i)) = 1

\* C5: the wrapped service is invoked for a dispatch only once its decode
\* operation has completed with success: never while the dispatch is still
\* Decoding, never after a decode failure.
C5_DecodeBeforeCall ==
    \A k \in 1..Len(svcLog) :
        LET i == svcLog[k].by
        IN  /\ i \in 1..Len(futures)
            /\ futures[i].side = "Left"
            /\ Accepted(i)
            /\ StateTag(futures[i]) = "Responding"

\* a dispatch whose decode succeeded has invoked the service and completed
C5_Witness ==
    \E i \in 1..Len(futures) :
        /\ futures[i].side = "Left" /\ Completed(futures[i])
        /\ Accepted(i)
        /\ Len(CallsBy(i)) = 1
\* the answer of Middleware::poll_ready is the wrapped service's answer, a
\* failure wrapped into the wrapped-service error kind
ReadyForwarded(r) ==
    CASE r.inner.tag = "Pending" -> r.outer = Pending
      [] r.inner.tag = "Ready" /\ IsOk(r.inner.val) -> r.outer = r.inner
      [] OTHER -> r.outer = Ready(Err([kind |-> "Inner", val |-> r.inner.val.val]))

\* C6: Middleware::poll_ready answers what the wrapped service's poll_ready
\* answers (ready, not ready, or its failure as the wrapped-service error kind),
\* and a readiness check extracts no credential, starts no decode, creates no
\* dispatch and invokes no service call.
C6_ReadinessForwarded ==
    [][/\ ReadyForwarded(readyRet')
       /\ (readyRet' # readyRet \/ (DOMAIN handles' = DOMAIN handles /\ handles' # handles)) =>
            UNCHANGED <<service, futures, svcLog, decLog, arrivals>>
      ]_vars

\* the wrapped service failed its readiness check while a dispatch was in
\* flight, and the middleware reported that failure
C6_Witness ==
    /\ readyRet.inner = Ready(Err(SvcOverloaded))
    /\ readyRet.outer = Ready(Err([kind |-> "Inner", val |-> SvcOverloaded]))
    /\ Len(futures) > 0

\* the kind of error a result carries, "none" for a success
ErrKind(v) == IF IsErr(v) THEN v.val.kind ELSE "none"

\* C7: a dispatch resolves to the missing-credential error exactly when no
\* bearer token was extracted, to the decode-failure error exactly when the
\* decode failed (with the decoder's error value), to the wrapped-service error
\* exactly when the service operation failed (with the service's error value),
\* and to the service's response exactly when the service succeeded; it never
\* resolves to anything else.
C7_ErrorKinds ==
    \A i \in 1..Len(futures) :
        /\ futures[i].out.tag \in {"NotPolled", "Pending", "Ready"}
        /\ futures[i].out.tag = "Ready" =>
            LET v == futures[i].out.val
                called == Len(CallsBy(i)) = 1
            IN  /\ ErrKind(v) \in {"none", "MissingAuthorizationHeader", "Decoder", "Inner"}
                /\ ErrKind(v) = "MissingAuthorizationHeader" <=> ~HasBearer(arrivals[i])
                /\ ErrKind(v) = "Decoder" <=> Rejected(i)
                /\ ErrKind(v) = "Decoder" => v.val.val = DecodesBy(i)[1].result.val
                /\ ErrKind(v) = "Inner" <=> (called /\ IsErr(CallsBy(i)[1].outcome))
                /\ ErrKind(v) = "Inner" => v.val.val = CallsBy(i)[1].outcome.val
                /\ ErrKind(v) = "none" <=> (called /\ IsOk(CallsBy(i)[1].outcome))
                /\ ErrKind(v) = "none" => v = CallsBy(i)[1].outcome

\* a dispatch has resolved to the failure of the wrapped service
C7_Witness ==
    \E i \in 1..Len(futures) :
        futures[i].out = Ready(Err([kind |-> "Inner", val |-> SvcOverloaded]))

\* the futures that own a service handle
Owners == {i \in 1..Len(futures) : futures[i].side = "Left" /\ futures[i].alive}
HandlesDistinct ==
    \A i \in Owners :
        /\ futures[i].fut.service # service
        /\ \A j \in Owners : i # j => futures[i].fut.service # futures[j].fut.service
OwnHandleOnce ==
    /\ \A k \in 1..Len(svcLog) :
          /\ svcLog[k].by \in Owners => svcLog[k].handle = futures[svcLog[k].by].fut.service
          /\ \A l \in 1..Len(svcLog) : k # l => svcLog[k].handle # svcLog[l].handle
    /\ \A i \in 1..Len(futures) : Len(CallsBy(i)) <= 1

\* C8: the dispatches of successive calls each own a service handle distinct
\* from every other dispatch's and from the one the middleware keeps, each
\* invokes its own handle at most once, and a step changes at most one of
\* them: polling one never changes another.
C8_Independent ==
    [][/\ HandlesDistinct'
       /\ OwnHandleOnce'
       /\ \A i, j \in 1..Len(futures) :
            i # j => (futures'[i] = futures[i] \/ futures'[j] = futures[j])
      ]_vars

\* the second dispatch has completed with a response while the first is still
\* in flight
C8_Witness ==
    /\ Len(futures) >= 2
    /\ 1 \in Owners /\ ~Completed(futures[1])
    /\ 2 \in Owners /\ futures[2].out.tag = "Ready" /\ IsOk(futures[2].out.val)

\* C9: a claim encoded by util::token and decoded by the decoder of
\* util::in_place_decoder before it expires comes back equal to the original.
C9_RoundTrip ==
    (codec.by = "token" /\ IsSome(codec.decoded) /\ codec.claim.exp >= codec.at) =>
        codec.decoded = Some(Ok(codec.claim))

\* a claim was decoded at the very second it expires, after the clock advanced
C9_Witness ==
    /\ codec.by = "token" /\ IsSome(codec.decoded)
    /\ codec.at > Epoch
    /\ codec.claim.exp = codec.at
    /\ codec.decoded = Some(Ok(codec.claim))

\* C10: a dispatch that is Responding stays Responding, and a dispatch goes
\* from Decoding to Responding only in a poll in which its decode operation
\* completes with success.
C10_TransitionOnce ==
    [][\A i \in 1..Len(futures) :
          futures[i].side = "Left" =>
            /\ StateTag(futures[i]) = "Responding" => StateTag(futures'[i]) = "Responding"
            /\ (StateTag(futures[i]) = "Decoding" /\ StateTag(futures'[i]) = "Responding") =>
                  /\ Accepted(i)
                  /\ futures[i].alive /\ futures'[i].alive
                  /\ futures'[i].out.tag \in {"Pending", "Ready"}
      ]_vars

\* a dispatch is Responding and has resolved to the service's failure
C10_Witness ==
    \E i \in 1..Len(futures) :
        /\ futures[i].side = "Left" /\ futures[i].alive
        /\ futures[i].fut.state.tag = "Responding"
        /\ futures[i].out.tag = "Ready" /\ ErrKind(futures[i].out.val) = "Inner"

\* C11: the request slot of a dispatch is occupied exactly while it is Decoding
\* and empty exactly while it is Responding; the wrapped service has received
\* the request of a dispatch once if it is Responding and not at all if it is
\* Decoding, and receives it only in the step that takes the dispatch from
\* Decoding to Responding and empties the slot that held it; no poll ends in
\* the "Request was missing on the future" panic.
C11_RequestHandOff ==
    [][\A i \in 1..Len(futures') :
          futures'[i].side = "Left" =>
            /\ futures'[i].out.tag # "Panic"
            /\ futures'[i].alive =>
                  /\ IsSome(futures'[i].fut.request) <=> futures'[i].fut.state.tag = "Decoding"
                  /\ ~IsSome(futures'[i].fut.request) <=> futures'[i].fut.state.tag = "Responding"
            /\ Len(CallsBy(i)') = IF StateTag(futures'[i]) = "Responding" THEN 1 ELSE 0
            /\ Len(CallsBy(i)') > Len(CallsBy(i)) =>
                  /\ i <= Len(futures)
                  /\ futures[i].alive /\ futures'[i].alive
                  /\ futures[i].fut.state.tag = "Decoding"
                  /\ futures'[i].fut.state.tag = "Responding"
                  /\ IsSome(futures[i].fut.request)
                  /\ futures'[i].fut.request = None
      ]_vars

\* a dispatch has handed its request over, is Responding with an empty slot,
\* and has completed
C11_Witness ==
    \E i \in 1..Len(futures) :
        /\ futures[i].side = "Left" /\ futures[i].alive
        /\ futures[i].fut.state.tag = "Responding"
        /\ futures[i].fut.request = None
        /\ Len(CallsBy(i)) = 1
        /\ Completed(futures[i])

\* C12: the request the wrapped service receives from a dispatch is the request
\* that arrived with the slot of the claim type holding the claim the decode
\* operation produced, whatever that slot held on arrival; the headers, the
\* body and the extensions of other types are those of the request that
\* arrived.
C12_ClaimAttached ==
    \A k \in 1..Len(svcLog) :
        LET i == svcLog[k].by
            passed == svcLog[k].request
        IN  /\ Accepted(i)
            /\ passed.extensions.Claim = Some(DecodesBy(i)[1].result.val)
            /\ passed.headers = arrivals[i].headers
            /\ passed.body = arrivals[i].body
            /\ passed.extensions.Other = arrivals[i].extensions.Other
            /\ passed = [arrivals[i] EXCEPT
                            !.extensions.Claim = Some(DecodesBy(i)[1].result.val)]

\* a request that arrived carrying a stale claim was passed on carrying the
\* decoded claim instead, its other parts as they arrived
C12_Witness ==
    \E k \in 1..Len(svcLog) :
        LET i == svcLog[k].by
        IN  /\ arrivals[i].extensions.Claim = Some(StaleClaim)
            /\ svcLog[k].request.extensions.Claim = Some(claim(Some(100), now))
            /\ svcLog[k].request.extensions.Claim # arrivals[i].extensions.Claim
            /\ svcLog[k].request.extensions.Other = "trace"
            /\ svcLog[k].request.headers = arrivals[i].headers

\* C13: a dispatch dropped while Decoding has never invoked the wrapped service
\* and never will, so its request never reaches the service; a dispatch
\* dropped while Responding has invoked it once and never does again; and once
\* dropped, neither the dispatch nor the calls made for it change in any step.
C13_Cancellation ==
    [][\A i \in 1..Len(futures') :
          ~futures'[i].alive =>
            /\ StateTag(futures'[i]) # "Responding" =>
                  /\ Len(CallsBy(i)') = 0
                  /\ \A k \in 1..Len(svcLog') : svcLog'[k].by # i
            /\ StateTag(futures'[i]) = "Responding" => Len(CallsBy(i)') = 1
            /\ (i <= Len(futures) /\ ~futures[i].alive) =>
                  /\ futures'[i] = futures[i]
                  /\ CallsBy(i)' = CallsBy(i)
      ]_vars

\* one dispatch was dropped while Decoding although its credential was valid,
\* another was dropped while Responding, after its one call of the service
C13_Witness ==
    \E i, j \in 1..Len(futures) :
        /\ futures[i].side = "Left" /\ ~futures[i].alive
        /\ StateTag(futures[i]) = "Decoding" /\ Accepted(i)
        /\ Len(CallsBy(i)) = 0
        /\ futures[j].side = "Left" /\ ~futures[j].alive
        /\ StateTag(futures[j]) = "Responding"
        /\ Len(CallsBy(j)) = 1

\* the operation a dispatch is waiting for: the decode operation while
\* Decoding, the service operation while Responding
Awaited(d) == d.fut.state.fut
\* what a poll of the dispatch answers when the operation it polled answers a
AnswerOf(a) ==
    CASE a.tag = "Pending" -> Pending
      [] a.tag = "Ready" /\ IsOk(a.val) -> a
      [] OTHER -> Ready(Err([kind |-> "Inner", val |-> a.val.val]))

\* C14: the last poll of a dispatch answered pending only if the operation it
\* polled last answered pending: the decode operation while Decoding, the
\* service operation while Responding. A dispatch goes from Decoding to
\* Responding in a poll in which its decode operation answers with a success,
\* and in that same poll the service is invoked and the service operation is
\* polled: the poll answers what the service operation answered, and no
\* Responding dispatch holds a service operation that was not polled yet.
C14_PendingOnlyWhenAwaited ==
    [][\A i \in 1..Len(futures') :
          (futures'[i].side = "Left" /\ futures'[i].alive) =>
            /\ futures'[i].out = Pending => Awaited(futures'[i]).last = Pending
            /\ futures'[i].fut.state.tag = "Responding" =>
                  Awaited(futures'[i]).last # NotPolled
            /\ (/\ i <= Len(futures)
                /\ futures[i].fut.state.tag = "Decoding"
                /\ futures'[i].fut.state.tag = "Responding") =>
                  /\ IsOk(Awaited(futures[i]).outcome)
                  /\ Len(CallsBy(i)') = Len(CallsBy(i)) + 1
                  /\ Awaited(futures'[i]).outcome = CallsBy(i)'[1].outcome
                  /\ futures'[i].out = AnswerOf(Awaited(futures'[i]).last)
      ]_vars

\* one dispatch answered pending while its decode operation is pending,
\* another answered pending while its service operation is pending
C14_Witness ==
    \E i, j \in 1..Len(futures) :
        /\ futures[i].side = "Left" /\ futures[i].alive
        /\ futures[i].fut.state.tag = "Decoding"
        /\ futures[i].out = Pending /\ Awaited(futures[i]).last = Pending
        /\ futures[j].side = "Left" /\ futures[j].alive
        /\ futures[j].fut.state.tag = "Responding"
        /\ futures[j].out = Pending /\ Awaited(futures[j]).last = Pending

\* the i-th future is a dispatch; it has resolved to a response, a decode
\* failure or a failure of the wrapped service
IsDispatch(i) == i <= Len(futures) /\ futures[i].side = "Left"
Resolved(i) ==
    /\ IsDispatch(i)
    /\ futures[i].out.tag = "Ready"
    /\ ErrKind(futures[i].out.val) \in {"none", "Decoder", "Inner"}
    /\ ErrKind(futures[i].out.val) = "none" => futures[i].out.val.val.status = 200

\* C15: when the executor keeps polling and neither the decode nor the service
\* operation stays pending forever, every dispatch eventually resolves to a
\* response, a decode failure or a failure of the wrapped service, and keeps
\* that one result from then on.
C15_EventuallyResolves ==
    /\ \A i \in 1..MaxDispatch : IsDispatch(i) ~> Resolved(i)
    /\ [][\A i \in 1..Len(futures) :
             Resolved(i) => futures'[i].out = futures[i].out]_vars

\* every dispatch has resolved, one of them to a failure of the wrapped
\* service after its decode succeeded, another to a decode failure
C15_Witness ==
    /\ Len(futures) = MaxDispatch
    /\ \E i, j \in 1..Len(futures) :
          /\ Resolved(i) /\ ErrKind(futures[i].out.val) = "Inner" /\ Accepted(i)
          /\ Resolved(j) /\ ErrKind(futures[j].out.val) = "Decoder"

\* the entry, in a log of decode operations, of the one started for future i
StartOf(log, i) == SelectSeq(log, LAMBDA e : e.by = i)[1]

\* C16: a call with a credential moves the handle the middleware held into
\* the new dispatch, readiness as it was, and leaves the middleware with a
\* fresh clone on which readiness has not been checked; no step checks the
\* readiness of a handle a dispatch owns, the poll that invokes the service
\* included; so the handle a dispatch invokes has been polled ready exactly if
\* the middleware's handle had been when call was made.
C16_HandleSwap ==
    [][/\ (Len(futures') = Len(futures) + 1 /\ futures'[Len(futures')].side = "Left") =>
            /\ futures'[Len(futures')].fut.service = service
            /\ handles'[service] = handles[service]
            /\ service' \notin DOMAIN handles
            /\ handles'[service'] = [ready |-> FALSE, origin |-> service]
       /\ \A h \in DOMAIN handles : h # service => handles'[h] = handles[h]
       /\ svcLog' # svcLog => UNCHANGED <<service, handles, readyRet>>
       /\ \A k \in 1..Len(svcLog') :
            /\ svcLog'[k].handle # service'
            /\ handles'[svcLog'[k].handle].ready = StartOf(decLog', svcLog'[k].by).handleReady
      ]_vars

\* a dispatch has invoked the service on a handle that was polled ready, while
\* the clone the middleware kept has not been polled ready
C16_Witness ==
    \E k \in 1..Len(svcLog) :
        /\ handles[svcLog[k].handle].ready
        /\ DecodesBy(svcLog[k].by)[1].handleReady
        /\ handles[service].origin = svcLog[k].handle
        /\ ~handles[service].ready

\* C17: a call with a usable bearer credential starts exactly one decode
\* operation, in the call step itself, so before the new dispatch was ever
\* polled, and hands it the credential string of the Authorization header and
\* nothing else; the dispatch awaits that very operation; a call without a
\* usable credential starts none; and no other step, a poll least of all,
\* starts a decode operation.
C17_DecodeOncePerCall ==
    [][/\ Len(futures') = Len(futures) + 1 =>
            LET n == Len(futures')
                req == arrivals'[n]
            IN  IF HasBearer(req)
                THEN /\ Len(decLog') = Len(decLog) + 1
                     /\ SubSeq(decLog', 1, Len(decLog)) = decLog
                     /\ decLog'[Len(decLog')].by = n
                     /\ decLog'[Len(decLog')].token = req.headers.authorization.cred
                     /\ futures'[n].side = "Left"
                     /\ futures'[n].out = NotPolled
                     /\ futures'[n].fut.state.tag = "Decoding"
                     /\ futures'[n].fut.state.fut.last = NotPolled
                     /\ futures'[n].fut.state.fut.outcome = decLog'[Len(decLog')].result
                ELSE decLog' = decLog
       /\ Len(futures') = Len(futures) => decLog' = decLog
       /\ \A i \in 1..Len(futures') :
            Len(SelectSeq(decLog', LAMBDA e : e.by = i)) =
                IF HasBearer(arrivals'[i]) THEN 1 ELSE 0
      ]_vars

\* a credentialed call has been polled to the end with its one decode
\* operation, and a call without a credential has been polled to the end with
\* none
C17_Witness ==
    \E i, j \in 1..Len(futures) :
        /\ HasBearer(arrivals[i]) /\ Completed(futures[i])
        /\ Len(DecodesBy(i)) = 1
        /\ DecodesBy(i)[1].token = arrivals[i].headers.authorization.cred
        /\ ~HasBearer(arrivals[j]) /\ Completed(futures[j])
        /\ Len(DecodesBy(j)) = 0
        /\ Len(decLog) = 1
====
